---- MODULE Spec2Model ----
(***************************************************************************)
(* A model of the SIL cloning engine of include/swift/SIL/SILCloner.h:     *)
(* the three maps, the remap hooks, the clone rules of the instruction     *)
(* kinds used below, the block walker visitSILBasicBlock and the           *)
(* standalone SILInstructionCloner.                                        *)
(*                                                                         *)
(* Entities.  An original block is a number in Blocks; the walk starts at  *)
(* StartBB.  An original value is <<"arg", b, j, 0>> (parameter j of block *)
(* b) or <<"inst", b, i, r>> (result r of instruction i of block b).  A    *)
(* block of the target function is a positive number, a new instruction is *)
(* a positive number (its index in NewInsts), a new value is               *)
(* <<"newarg", nb, j, 0>> or <<"newinst", id, 0, r>>.  The null pointer is *)
(* 0 and the null SILValue is <<"null", 0, 0, r>>.                         *)
(***************************************************************************)
EXTENDS Integers, Sequences, FiniteSets, TLC

\* Bounds of the explored inputs.
NumBlocks == 4
MaxEdges == 4
MaxArgs == 2
NumTypes == 2

Blocks == 0 .. (NumBlocks - 1)
Types == 0 .. (NumTypes - 1)
StartBB == 0

\* The target function holds two blocks before any cloning: the block the
\* builder inserts into and the block that may serve as InsertBeforeBB.
CallerBB == 1
AnchorBB == 2
NullBB == 0
NullInst == 0
NoType == 0 - 1

VARIABLES
  BBArgs,          \* original IR: BBArgs[b] = the types of b's parameters
  Insts,           \* original IR: Insts[b] = b's instructions, terminator last
  Hook,            \* the derived class: which remapType it supplies
  NDEBUG,          \* the build: TRUE when assert() is compiled out
  ArgumentMap,     \* SILCloner::ArgumentMap
  InstructionMap,  \* SILCloner::InstructionMap
  BBMap,           \* SILCloner::BBMap
  InsertBeforeBB,  \* SILCloner::InsertBeforeBB
  InsertionBB,     \* the builder's insertion point (a target block or NullBB)
  FBlocks,         \* F.getBlocks(): the target function's block list
  NewBBs,          \* NewBBs[nb] = [args, insts] of target block nb
  NewInsts,        \* the instructions the builder has created, by id
  stack,           \* the active invocations of visitSILBasicBlock
  status,          \* "init", "running", "done", "aborted", "crashed"
  visitLog,        \* history: the blocks visitSILBasicBlock was invoked on
  dispatchLog      \* history: <<invocation, b, i>> of every dispatched instruction

orig == <<BBArgs, Insts>>
config == <<Hook, NDEBUG, InsertBeforeBB>>
maps == <<ArgumentMap, InstructionMap, BBMap>>
target == <<InsertionBB, FBlocks, NewBBs, NewInsts>>
control == <<stack, status>>
history == <<visitLog, dispatchLog>>
vars == <<BBArgs, Insts, Hook, NDEBUG, ArgumentMap, InstructionMap, BBMap,
          InsertBeforeBB, InsertionBB, FBlocks, NewBBs, NewInsts, stack,
          status, visitLog, dispatchLog>>

-----------------------------------------------------------------------------
\* Values

ArgValue(b, j) == <<"arg", b, j, 0>>
InstValue(b, i, r) == <<"inst", b, i, r>>
NewArgValue(nb, j) == <<"newarg", nb, j, 0>>
NewInstValue(id, r) == <<"newinst", id, 0, r>>
NullValue(r) == <<"null", 0, 0, r>>
IsNull(v) == v[1] = "null"

\* llvm::DenseMap, as a function whose domain is the set of keys present.
EmptyMap == [k \in {} |-> 0]

\* DenseMap::operator[] reads the entry of k; an absent key reads as the
\* default-constructed (null) value ...
MapRead(m, k, null) == IF k \in DOMAIN m THEN m[k] ELSE null
\* ... which operator[] also inserts for the absent key.
MapTouch(m, k, null) == IF k \in DOMAIN m THEN m ELSE m @@ (k :> null)
\* DenseMap::insert adds the pair only when the key is absent.
MapInsert(m, k, v) == IF k \in DOMAIN m THEN m ELSE m @@ (k :> v)

RECURSIVE MapTouchAll(_, _, _)
MapTouchAll(m, ks, null) ==
  IF ks = <<>> THEN m
  ELSE MapTouchAll(MapTouch(m, Head(ks), null), Tail(ks), null)

Range(s) == {s[i] : i \in DOMAIN s}

-----------------------------------------------------------------------------
\* The remap hooks

\* remapLocation of the base class: the identity.
remapLocation(Loc) == Loc

\* remapType: the base class returns Ty; a derived class may substitute
\* (here: every type becomes type 0, as a specialiser replaces archetypes).
remapType(Ty) ==
  IF Ty = NoType THEN NoType
  ELSE IF Hook = "subst" THEN 0 ELSE Ty

IsArgument(Value) == Value[1] = "arg"
IsInstruction(Value) == Value[1] = "inst"
ArgKey(Value) == <<Value[2], Value[3]>>
InstKey(Value) == <<Value[2], Value[3]>>

\* remapValue: the value the lookup returns (the assertions are in Unmapped).
remapValue_DropResultNumber(Value) ==
  IF IsArgument(Value)
  THEN MapRead(ArgumentMap, ArgKey(Value), NullValue(0))
  ELSE LET V == MapRead(InstructionMap, InstKey(Value), NullInst)
       IN  IF V = NullInst THEN NullValue(0) ELSE NewInstValue(V, 0)
remapValue(Value) ==
  IF IsArgument(Value)
  THEN MapRead(ArgumentMap, ArgKey(Value), NullValue(0))
  ELSE LET V == MapRead(InstructionMap, InstKey(Value), NullInst)
       IN  IF V = NullInst THEN NullValue(Value[4]) ELSE NewInstValue(V, Value[4])

\* remapBasicBlock: the block the lookup returns.
remapBasicBlock(BB) == MapRead(BBMap, BB, NullBB)

getOpLocation(Loc) == remapLocation(Loc)
getOpType(Ty) == remapType(Ty)
getOpValue(Value) == remapValue(Value)
getOpValueArray(Values) == [i \in 1 .. Len(Values) |-> remapValue(Values[i])]
getOpBasicBlock(BB) == remapBasicBlock(BB)

\* The assertions of remapValue and remapBasicBlock fail on these lookups.
UnmappedValue(Value) == IsNull(remapValue(Value))
UnmappedBlock(BB) == remapBasicBlock(BB) = NullBB

-----------------------------------------------------------------------------
\* The original function.  Every instruction is a record
\*   [kind, loc, ty, payload, ops, succs]:
\* ty is the type the clone rule remaps (NoType when the rule remaps none),
\* payload the field the rule copies verbatim, ops the operand values the rule
\* remaps and succs the successor blocks it remaps.

MkInst(kind, loc, ty, payload, ops, succs) ==
  [kind |-> kind, loc |-> loc, ty |-> ty, payload |-> payload,
   ops |-> ops, succs |-> succs]

NArgs(b) == (b + 1) % (MaxArgs + 1)
ArgType(b, j) == (b + j) % NumTypes
ArgsOf(b) == [j \in 1 .. NArgs(b) |-> ArgType(b, j)]
ArgValues(b) == [j \in 1 .. NArgs(b) |-> ArgValue(b, j)]
LocOf(b, i) == 10 * b + i

\* The non-terminator instructions of block b.  Blocks 0, 4, .. use only
\* their own values; blocks 1, 5, .. their own parameters; blocks 2, 6, ..
\* an instruction result and a parameter of the block before them; blocks
\* 3, 7, .. no value at all.
BodyOf(b) ==
  CASE b % 4 = 0 ->
         << MkInst("alloc_stack", LocOf(b, 1), b % NumTypes, 0, <<>>, <<>>),
            MkInst("load", LocOf(b, 2), NoType, 0, <<InstValue(b, 1, 1)>>, <<>>) >>
    [] b % 4 = 1 ->
         << MkInst("tuple", LocOf(b, 1), b % NumTypes, 0, ArgValues(b), <<>>) >>
    [] b % 4 = 2 ->
         << MkInst("struct_extract", LocOf(b, 1), b % NumTypes, 7,
                 <<InstValue(b - 1, 1, 0)>>, <<>>) >>
         \o (IF NArgs(b - 1) >= 1
             THEN << MkInst("load", LocOf(b, 2), NoType, 0,
                          <<ArgValue(b - 1, 1)>>, <<>>) >>
             ELSE <<>>)
    [] OTHER ->
         << MkInst("enum", LocOf(b, 1), b % NumTypes, 5, <<>>, <<>>) >>

\* The terminator of block b after n instructions, for its successor list: a
\* return of the last result, a branch
\* passing one argument per parameter of the destination, or a conditional
\* branch (payload: the number of true-path arguments).
BranchArgs(b, dest) == [j \in 1 .. NArgs(dest) |-> InstValue(b, 1, 0)]
TermAfter(b, n, sl) ==
  LET loc == LocOf(b, n + 1)
  IN  CASE Len(sl) = 0 ->
             MkInst("return", loc, NoType, 0, <<InstValue(b, n, 0)>>, <<>>)
        [] Len(sl) = 1 ->
             MkInst("br", loc, NoType, 0, BranchArgs(b, sl[1]), sl)
        [] OTHER ->
             MkInst("cond_br", loc, NoType, NArgs(sl[1]),
                  <<InstValue(b, 1, 0)>> \o BranchArgs(b, sl[1]) \o BranchArgs(b, sl[2]),
                  sl)
TermOf(b, sl) == TermAfter(b, Len(BodyOf(b)), sl)

InstsOf(b, sl) == Append(BodyOf(b), TermOf(b, sl))

\* BB->getSuccs(): the successors of the terminator, in edge order.
Terminator(b) == Insts[b][Len(Insts[b])]
Succs(b) == Terminator(b).succs

\* The control-flow graphs.  A graph gives every block the length of its
\* successor list (none, one or two: a return, a branch, a conditional
\* branch), at most MaxEdges edges in all, and the edges their targets.
RECURSIVE EdgesBefore(_, _)
EdgesBefore(lens, b) == IF b = 0 THEN 0 ELSE EdgesBefore(lens, b - 1) + lens[b - 1]

Shapes(edges) == { lens \in [Blocks -> 0 .. 2] : EdgesBefore(lens, NumBlocks) <= edges }
Targets(lens) == [1 .. EdgesBefore(lens, NumBlocks) -> Blocks]
SuccList(lens, tg, b) ==
  [k \in 1 .. lens[b] |-> tg[EdgesBefore(lens, b) + k]]

\* The blocks reachable from StartBB when sl(b) lists b's successors.
RECURSIVE ReachIn(_, _, _)
ReachIn(lens, tg, seen) ==
  LET more == seen \cup UNION { Range(SuccList(lens, tg, b)) : b \in seen }
  IN  IF more = seen THEN seen ELSE ReachIn(lens, tg, more)

\* The blocks reachable from StartBB on a path that does not enter block d.
RECURSIVE ReachAvoiding(_, _, _, _)
ReachAvoiding(lens, tg, d, seen) ==
  LET more == seen \cup (UNION { Range(SuccList(lens, tg, b)) : b \in seen } \ {d})
  IN  IF more = seen THEN seen ELSE ReachAvoiding(lens, tg, d, more)
Dominates(lens, tg, d, b) == b \notin ReachAvoiding(lens, tg, d, {StartBB} \ {d})

\* The blocks whose values the instructions of block b use.
UsedBlocks(b, sl) ==
  { v[2] : v \in UNION { Range(I.ops) : I \in Range(InstsOf(b, sl)) } }

\* Valid SIL: a value used in a reachable block is defined in that block or
\* in a block that dominates it.
DefsDominateUses(lens, tg) ==
  \A b \in ReachIn(lens, tg, {StartBB}) :
    \A d \in UsedBlocks(b, SuccList(lens, tg, b)) \ {b} : Dominates(lens, tg, d, b)

\* A block the start block cannot reach ends in a return.
UnreachableReturn(lens, tg) ==
  \A b \in Blocks \ ReachIn(lens, tg, {StartBB}) : lens[b] = 0

-----------------------------------------------------------------------------
\* The builder and the clone rules

\* Builder.createX(...): a new instruction, placed at the insertion point.
Create(kind, loc, ty, payload, ops, succs) ==
  [kind |-> kind, loc |-> loc, ty |-> ty, payload |-> payload,
   ops |-> ops, succs |-> succs, parent |-> InsertionBB]

visitAllocStackInst(Inst) ==
  Create("alloc_stack", getOpLocation(Inst.loc), getOpType(Inst.ty), 0, <<>>, <<>>)

visitLoadInst(Inst) ==
  Create("load", getOpLocation(Inst.loc), NoType, 0,
         <<getOpValue(Inst.ops[1])>>, <<>>)

visitStoreInst(Inst) ==
  Create("store", getOpLocation(Inst.loc), NoType, 0,
         <<getOpValue(Inst.ops[1]), getOpValue(Inst.ops[2])>>, <<>>)

visitTupleInst(Inst) ==
  LET Elements == getOpValueArray(Inst.ops)
  IN  Create("tuple", getOpLocation(Inst.loc), getOpType(Inst.ty), 0, Elements, <<>>)

visitStructExtractInst(Inst) ==
  Create("struct_extract", getOpLocation(Inst.loc), getOpType(Inst.ty),
         Inst.payload, <<getOpValue(Inst.ops[1])>>, <<>>)

hasOperand(Inst) == Len(Inst.ops) > 0
visitEnumInst_OperandDropped(Inst) ==
  Create("enum", getOpLocation(Inst.loc), getOpType(Inst.ty), Inst.payload,
         <<>>, <<>>)
visitEnumInst(Inst) ==
  Create("enum", getOpLocation(Inst.loc), getOpType(Inst.ty), Inst.payload,
         IF hasOperand(Inst) THEN <<getOpValue(Inst.ops[1])>> ELSE <<>>, <<>>)

visitReturnInst(Inst) ==
  Create("return", getOpLocation(Inst.loc), NoType, 0,
         <<getOpValue(Inst.ops[1])>>, <<>>)

visitBranchInst(Inst) ==
  LET Args == getOpValueArray(Inst.ops)
  IN  Create("br", getOpLocation(Inst.loc), NoType, 0, Args,
             <<getOpBasicBlock(Inst.succs[1])>>)

visitCondBranchInst(Inst) ==
  LET TrueArgs == getOpValueArray(SubSeq(Inst.ops, 2, 1 + Inst.payload))
      FalseArgs == getOpValueArray(SubSeq(Inst.ops, 2 + Inst.payload, Len(Inst.ops)))
  IN  Create("cond_br", getOpLocation(Inst.loc), NoType, Len(TrueArgs),
             <<getOpValue(Inst.ops[1])>> \o TrueArgs \o FalseArgs,
             <<getOpBasicBlock(Inst.succs[1]), getOpBasicBlock(Inst.succs[2])>>)

\* Rules whose instruction carries data the cloner does not interpret: it is
\* handed to the factory as the original holds it.
visitIntegerLiteralInst(Inst) ==
  Create("integer_literal", getOpLocation(Inst.loc), getOpType(Inst.ty),
         Inst.payload, <<>>, <<>>)

\* apply: ty is <<SubstCalleeType, Type>>, ops the callee and the arguments.
visitApplyInst(Inst) ==
  LET Args == getOpValueArray(Tail(Inst.ops))
  IN  Create("apply", getOpLocation(Inst.loc),
             <<getOpType(Inst.ty[1]), getOpType(Inst.ty[2])>>,
             [substitutions |-> Inst.payload.substitutions,
              transparent |-> Inst.payload.transparent],
             <<getOpValue(Inst.ops[1])>> \o Args, <<>>)

visitInitializeVarInst(Inst) ==
  Create("initialize_var", getOpLocation(Inst.loc), NoType,
         [canDefaultConstruct |-> Inst.payload.canDefaultConstruct],
         <<getOpValue(Inst.ops[1])>>, <<>>)

visitCopyAddrInst_FlagsSwapped(Inst) ==
  Create("copy_addr", getOpLocation(Inst.loc), NoType,
         [isTakeOfSrc |-> Inst.payload.isInitializationOfDest,
          isInitializationOfDest |-> Inst.payload.isTakeOfSrc],
         <<getOpValue(Inst.ops[1]), getOpValue(Inst.ops[2])>>, <<>>)
visitCopyAddrInst(Inst) ==
  Create("copy_addr", getOpLocation(Inst.loc), NoType,
         [isTakeOfSrc |-> Inst.payload.isTakeOfSrc,
          isInitializationOfDest |-> Inst.payload.isInitializationOfDest],
         <<getOpValue(Inst.ops[1]), getOpValue(Inst.ops[2])>>, <<>>)

\* payload: the cast kind.
visitUnconditionalCheckedCastInst(Inst) ==
  Create("unconditional_checked_cast", getOpLocation(Inst.loc), getOpType(Inst.ty),
         Inst.payload, <<getOpValue(Inst.ops[1])>>, <<>>)

visitClassMethodInst(Inst) ==
  Create("class_method", getOpLocation(Inst.loc), getOpType(Inst.ty),
         [member |-> Inst.payload.member, volatile |-> Inst.payload.volatile],
         <<getOpValue(Inst.ops[1])>>, <<>>)

\* ty: the concrete type; payload: the conformances.
visitInitExistentialInst(Inst) ==
  Create("init_existential", getOpLocation(Inst.loc), getOpType(Inst.ty),
         Inst.payload, <<getOpValue(Inst.ops[1])>>, <<>>)

\* The switch-like terminators.  payload lists the case values (integers for
\* switch_int, enum elements for the other two); succs lists the case
\* destinations in case order, followed by the default destination if the
\* switch has one.
SwitchKinds == {"switch_int", "switch_enum", "destructive_switch_enum_addr"}
getNumCases(Inst) == Len(Inst.payload)
getCase(Inst, i) == <<Inst.payload[i], Inst.succs[i]>>
hasDefault(Inst) == Len(Inst.succs) > getNumCases(Inst)
getDefaultBB(Inst) == Inst.succs[getNumCases(Inst) + 1]

\* Builder.createSwitchX(Loc, Operand, DefaultBB, CaseBBs): a null DefaultBB
\* stands for "no default".
CreateSwitch(kind, loc, Operand, DefaultBB, CaseBBs) ==
  Create(kind, loc, NoType, [i \in DOMAIN CaseBBs |-> CaseBBs[i][1]], <<Operand>>,
         [i \in DOMAIN CaseBBs |-> CaseBBs[i][2]]
           \o (IF DefaultBB = NullBB THEN <<>> ELSE <<DefaultBB>>))

\* The three rules have one body.
visitSwitch_CasesReversed(Inst) ==
  LET DefaultBB == IF hasDefault(Inst) THEN getOpBasicBlock(getDefaultBB(Inst))
                   ELSE NullBB
      e == getNumCases(Inst)
      CaseBBs == [i \in 1 .. e |->
                    <<getCase(Inst, e + 1 - i)[1],
                      getOpBasicBlock(getCase(Inst, e + 1 - i)[2])>>]
  IN  CreateSwitch(Inst.kind, getOpLocation(Inst.loc), getOpValue(Inst.ops[1]),
                   DefaultBB, CaseBBs)
visitSwitch(Inst) ==
  LET DefaultBB == IF hasDefault(Inst) THEN getOpBasicBlock(getDefaultBB(Inst))
                   ELSE NullBB
      CaseBBs == [i \in 1 .. getNumCases(Inst) |->
                    <<getCase(Inst, i)[1], getOpBasicBlock(getCase(Inst, i)[2])>>]
  IN  CreateSwitch(Inst.kind, getOpLocation(Inst.loc), getOpValue(Inst.ops[1]),
                   DefaultBB, CaseBBs)
visitSwitchIntInst(Inst) == visitSwitch(Inst)
visitSwitchEnumInst(Inst) == visitSwitch(Inst)
visitDestructiveSwitchEnumAddrInst(Inst) == visitSwitch(Inst)

\* SILVisitor::visit: the rule of the instruction's kind.
visit(Inst) ==
  CASE Inst.kind = "alloc_stack" -> visitAllocStackInst(Inst)
    [] Inst.kind = "load" -> visitLoadInst(Inst)
    [] Inst.kind = "store" -> visitStoreInst(Inst)
    [] Inst.kind = "tuple" -> visitTupleInst(Inst)
    [] Inst.kind = "struct_extract" -> visitStructExtractInst(Inst)
    [] Inst.kind = "enum" -> visitEnumInst(Inst)
    [] Inst.kind = "return" -> visitReturnInst(Inst)
    [] Inst.kind = "br" -> visitBranchInst(Inst)
    [] Inst.kind = "cond_br" -> visitCondBranchInst(Inst)
    [] Inst.kind = "integer_literal" -> visitIntegerLiteralInst(Inst)
    [] Inst.kind = "apply" -> visitApplyInst(Inst)
    [] Inst.kind = "initialize_var" -> visitInitializeVarInst(Inst)
    [] Inst.kind = "copy_addr" -> visitCopyAddrInst(Inst)
    [] Inst.kind = "unconditional_checked_cast" ->
         visitUnconditionalCheckedCastInst(Inst)
    [] Inst.kind = "class_method" -> visitClassMethodInst(Inst)
    [] Inst.kind = "init_existential" -> visitInitExistentialInst(Inst)
    [] Inst.kind = "switch_int" -> visitSwitchIntInst(Inst)
    [] Inst.kind = "switch_enum" -> visitSwitchEnumInst(Inst)
    [] Inst.kind = "destructive_switch_enum_addr" ->
         visitDestructiveSwitchEnumAddrInst(Inst)

\* postProcess: record Orig -> Cloned unless Orig already has an entry.
postProcess_NotRecorded(IM, Orig, Cloned) == IM
postProcess_Overwrite(IM, Orig, Cloned) ==
  [k \in DOMAIN IM \cup {Orig} |-> IF k = Orig THEN Cloned ELSE IM[k]]
postProcess(IM, Orig, Cloned) == MapInsert(IM, Orig, Cloned)

\* The lookups a rule makes go through operator[], which leaves a null entry
\* for every key it did not find.  With assertions compiled in, the first
\* failed lookup ends the process, so only that key is entered.
ArgKeysOf(Values) ==
  LET args == SelectSeq(Values, IsArgument)
  IN  [k \in 1 .. Len(args) |-> ArgKey(args[k])]
InstKeysOf(Values) ==
  LET is == SelectSeq(Values, IsInstruction)
  IN  [k \in 1 .. Len(is) |-> InstKey(is[k])]

MissesValue(Inst) == \E k \in DOMAIN Inst.ops : UnmappedValue(Inst.ops[k])
MissesBlock(Inst) == \E k \in DOMAIN Inst.succs : UnmappedBlock(Inst.succs[k])
Misses(Inst) == MissesValue(Inst) \/ MissesBlock(Inst)

FirstUnmappedValue(Inst) ==
  Inst.ops[CHOOSE k \in DOMAIN Inst.ops :
             /\ UnmappedValue(Inst.ops[k])
             /\ \A j \in 1 .. (k - 1) : ~UnmappedValue(Inst.ops[j])]
\* The blocks a rule looks up, in the order of its lookups: a switch rule
\* looks up the default destination before the case destinations, and all of
\* them before its operand.
BlockLookups(Inst) ==
  IF Inst.kind \in SwitchKinds /\ hasDefault(Inst)
  THEN <<getDefaultBB(Inst)>> \o SubSeq(Inst.succs, 1, getNumCases(Inst))
  ELSE Inst.succs
FirstUnmappedBlock(Inst) ==
  LET Looked == BlockLookups(Inst)
  IN  Looked[CHOOSE k \in DOMAIN Looked :
               /\ UnmappedBlock(Looked[k])
               /\ \A j \in 1 .. (k - 1) : ~UnmappedBlock(Looked[j])]
ValueLookupFailsFirst(Inst) ==
  MissesValue(Inst) /\ ~(Inst.kind \in SwitchKinds /\ MissesBlock(Inst))

\* The builder appends the new instruction to the block of the insertion point.
Inserted(bbs, id) ==
  IF InsertionBB = NullBB THEN bbs
  ELSE [bbs EXCEPT ![InsertionBB].insts = Append(@, id)]

\* What the history records of one dispatch.
Dispatched(inv, b, i, clone) ==
  [inv |-> inv, bb |-> b, idx |-> i, clone |-> clone,
   missedValue |-> MissesValue(Insts[b][i]),
   missedBlock |-> MissesBlock(Insts[b][i])]

\* visit(I) for the original instruction I = Insts[b][i] on the engine's
\* current state, in invocation inv of the walker (0: outside the walker);
\* after is the status in which a completed dispatch leaves the engine.
\*  - every lookup succeeds: the rule builds the clone, postProcess records it;
\*  - a lookup fails and assert() is compiled in: the process aborts;
\*  - a lookup fails and assert() is compiled out: the rule goes on with the
\*    null it was given; handing a null to the builder is undefined, the
\*    process may crash or build the instruction with the null in it.
Dispatch(inv, b, i, after) ==
  LET I == Insts[b][i]
      Cloned == Len(NewInsts) + 1
  IN  \/ /\ ~Misses(I)
         /\ NewInsts' = Append(NewInsts, visit(I))
         /\ NewBBs' = Inserted(NewBBs, Cloned)
         /\ InstructionMap' = postProcess(InstructionMap, <<b, i>>, Cloned)
         /\ status' = after
         /\ dispatchLog' = Append(dispatchLog, Dispatched(inv, b, i, Cloned))
         /\ UNCHANGED <<ArgumentMap, BBMap>>
      \/ /\ Misses(I)
         /\ ~NDEBUG
         /\ status' = "aborted"
         /\ dispatchLog' = Append(dispatchLog, Dispatched(inv, b, i, NullInst))
         /\ IF ValueLookupFailsFirst(I)
            THEN /\ ArgumentMap' =
                      MapTouchAll(ArgumentMap, ArgKeysOf(<<FirstUnmappedValue(I)>>),
                                  NullValue(0))
                 /\ InstructionMap' =
                      MapTouchAll(InstructionMap, InstKeysOf(<<FirstUnmappedValue(I)>>),
                                  NullInst)
                 /\ BBMap' = BBMap
            ELSE /\ BBMap' = MapTouch(BBMap, FirstUnmappedBlock(I), NullBB)
                 /\ UNCHANGED <<ArgumentMap, InstructionMap>>
         /\ UNCHANGED <<NewInsts, NewBBs>>
      \/ /\ Misses(I)
         /\ NDEBUG
         /\ ArgumentMap' = MapTouchAll(ArgumentMap, ArgKeysOf(I.ops), NullValue(0))
         /\ BBMap' = MapTouchAll(BBMap, I.succs, NullBB)
         /\ \/ /\ status' = "crashed"
               /\ dispatchLog' = Append(dispatchLog, Dispatched(inv, b, i, NullInst))
               /\ InstructionMap' = MapTouchAll(InstructionMap, InstKeysOf(I.ops), NullInst)
               /\ UNCHANGED <<NewInsts, NewBBs>>
            \/ /\ NewInsts' = Append(NewInsts, visit(I))
               /\ NewBBs' = Inserted(NewBBs, Cloned)
               /\ InstructionMap' =
                    postProcess(MapTouchAll(InstructionMap, InstKeysOf(I.ops), NullInst),
                                <<b, i>>, Cloned)
               /\ status' = after
               /\ dispatchLog' = Append(dispatchLog, Dispatched(inv, b, i, Cloned))

-----------------------------------------------------------------------------
\* The block walker

Frame(bb, inv) == [bb |-> bb, ip |-> 1, sp |-> 1, inv |-> inv]
Top == stack[Len(stack)]
SetTop(f) == [stack EXCEPT ![Len(stack)] = f]

\* new (F.getModule()) SILBasicBlock(&F): an empty block at the end of F.
NewBlock == [args |-> <<>>, insts |-> <<>>]

\* new (F.getModule()) SILArgument(Arg->getType(), MappedBB) for each argument
\* of the original block: the parameter list of the new block.
MappedArgTypes(Succ) == [j \in 1 .. Len(BBArgs[Succ]) |-> BBArgs[Succ][j]]

\* ArgumentMap.insert(std::make_pair(Arg, MappedArg)) for arguments j.. of Succ.
RECURSIVE RegisterArgs(_, _, _, _)
RegisterArgs_Omitted(AM, Succ, MappedBB, j) == AM
RegisterArgs_SameArg(AM, Succ, MappedBB, j) ==
  IF j > Len(BBArgs[Succ]) THEN AM
  ELSE RegisterArgs(MapInsert(AM, <<Succ, j>>, NewArgValue(MappedBB, 1)),
                    Succ, MappedBB, j + 1)
RegisterArgs(AM, Succ, MappedBB, j) ==
  IF j > Len(BBArgs[Succ]) THEN AM
  ELSE RegisterArgs(MapInsert(AM, <<Succ, j>>, NewArgValue(MappedBB, j)),
                    Succ, MappedBB, j + 1)

\* The loop over Succ.getBB()->getBBArgs() reads the original arguments; each
\* new SILArgument joins the argument list of the parent it is given, which
\* is MappedBB: the argument lists of the original blocks stay as they are.
OriginalArgs_ParentSucc(Args, Succ) == [Args EXCEPT ![Succ] = @ \o @]
OriginalArgs(Args, Succ) == Args

\* F.getBlocks().splice(InsertBeforeBB, F.getBlocks(), MappedBB) on the list
\* that already ends with MappedBB.
Splice(blocks, MappedBB) ==
  IF InsertBeforeBB = NullBB THEN Append(blocks, MappedBB)
  ELSE LET at == CHOOSE k \in DOMAIN blocks : blocks[k] = InsertBeforeBB
       IN  SubSeq(blocks, 1, at - 1) \o <<MappedBB>> \o SubSeq(blocks, at, Len(blocks))

\* BBMap.find(Succ) == BBMap.end()
NotVisited_CallerKey(Succ) == Top.bb \notin DOMAIN BBMap
NotVisited(Succ) == Succ \notin DOMAIN BBMap

\* BBMap.insert(std::make_pair(Succ, MappedBB))
RegisterBlock_Omitted(BM, Succ, MappedBB) == BM
RegisterBlock(BM, Succ, MappedBB) == MapInsert(BM, Succ, MappedBB)

\* E = --BB->end(): the position of the terminator, where the loop over the
\* instructions stops.
End_PastTerminator(BB) == Len(Insts[BB]) + 1
End(BB) == Len(Insts[BB])

\* The derived class calls visitSILBasicBlock(StartBB).
Walk ==
  /\ status = "init"
  /\ status' = "running"
  /\ stack' = <<Frame(StartBB, 1)>>
  /\ visitLog' = <<StartBB>>
  /\ UNCHANGED <<orig, config, maps, target, dispatchLog>>

\* One iteration of the loop over the instructions before the terminator.
VisitInst ==
  /\ status = "running"
  /\ Top.ip # End(Top.bb)
  /\ Dispatch(Top.inv, Top.bb, Top.ip, "running")
  /\ stack' = SetTop([Top EXCEPT !.ip = @ + 1])
  /\ UNCHANGED <<orig, config, InsertionBB, FBlocks, visitLog>>

\* One iteration of the loop over the successors: a successor that BBMap
\* knows is skipped; any other gets a new block, new arguments, its place in
\* the function, the insertion point, and a recursive visit.
VisitSucc ==
  /\ status = "running"
  /\ Top.ip = End(Top.bb)
  /\ Top.sp <= Len(Succs(Top.bb))
  /\ LET Succ == Succs(Top.bb)[Top.sp]
         MappedBB == Len(NewBBs) + 1
         next == SetTop([Top EXCEPT !.sp = @ + 1])
     IN  IF NotVisited(Succ)
         THEN /\ BBMap' = RegisterBlock(BBMap, Succ, MappedBB)
              /\ NewBBs' = Append(NewBBs, [NewBlock EXCEPT !.args = MappedArgTypes(Succ)])
              /\ ArgumentMap' = RegisterArgs(ArgumentMap, Succ, MappedBB, 1)
              /\ FBlocks' = Splice(FBlocks, MappedBB)
              /\ InsertionBB' = MappedBB
              /\ stack' = Append(next, Frame(Succ, Len(visitLog) + 1))
              /\ visitLog' = Append(visitLog, Succ)
              /\ BBArgs' = OriginalArgs(BBArgs, Succ)
              /\ UNCHANGED <<InstructionMap, NewInsts>>
         ELSE /\ stack' = next
              /\ UNCHANGED <<BBArgs, maps, target, visitLog>>
  /\ UNCHANGED <<Insts, config, status, dispatchLog>>

\* The builder's insertion point when an invocation returns: the walker
\* sets it for every new block and puts nothing back.
InsertionPointOnReturn_Restored(Returning) ==
  IF Len(Returning) = 1 THEN CallerBB
  ELSE IF Returning[Len(Returning) - 1].inv = 1 THEN CallerBB
  ELSE MapRead(BBMap, Returning[Len(Returning) - 1].bb, NullBB)
InsertionPointOnReturn(Returning) == InsertionBB

\* The invocation on top has run both loops: it returns to its caller.
Return ==
  /\ status = "running"
  /\ Top.ip = End(Top.bb)
  /\ Top.sp > Len(Succs(Top.bb))
  /\ stack' = SubSeq(stack, 1, Len(stack) - 1)
  /\ status' = IF Len(stack) = 1 THEN "done" ELSE "running"
  /\ InsertionBB' = InsertionPointOnReturn(stack)
  /\ UNCHANGED <<orig, config, maps, FBlocks, NewBBs, NewInsts, history>>

\* The derived classes: one keeps the default remapType and sets
\* InsertBeforeBB, one substitutes types and leaves InsertBeforeBB null.
Clients ==
  { [hook |-> "identity", anchor |-> AnchorBB],
    [hook |-> "subst", anchor |-> NullBB] }

\* The state after the derived class has constructed its SILCloner on the
\* target function F and set the builder's insertion point.
Constructed ==
  /\ BBArgs = [b \in Blocks |-> ArgsOf(b)]
  /\ \E c \in Clients : Hook = c.hook /\ InsertBeforeBB = c.anchor
  /\ NDEBUG \in BOOLEAN
  /\ ArgumentMap = EmptyMap
  /\ InstructionMap = EmptyMap
  /\ BBMap = EmptyMap
  /\ InsertionBB = CallerBB
  /\ FBlocks = <<CallerBB, AnchorBB>>
  /\ NewBBs = <<NewBlock, NewBlock>>
  /\ NewInsts = <<>>
  /\ stack = <<>>
  /\ status = "init"
  /\ visitLog = <<>>
  /\ dispatchLog = <<>>

Init ==
  /\ \E lens \in Shapes(MaxEdges) : \E tg \in Targets(lens) :
        /\ DefsDominateUses(lens, tg)
        /\ UnreachableReturn(lens, tg)
        /\ Insts = [b \in Blocks |-> InstsOf(b, SuccList(lens, tg, b))]
  /\ Constructed

Next == Walk \/ VisitInst \/ VisitSucc \/ Return

Spec == Init /\ [][Next]_vars

\* The walk is one synchronous call: a step that can be taken is taken.
FairSpec == Spec /\ WF_vars(Next)

-----------------------------------------------------------------------------
\* Cloning single instructions

RuleEdges == 2
MaxClones == 2

\* A derived class dispatches one instruction itself, as it must for the
\* terminators the walker leaves out: visit(I), before or after a walk.
CloneInst(b, i) ==
  /\ status \in {"init", "done"}
  /\ Dispatch(0, b, i, "cloned")
  /\ UNCHANGED <<orig, config, InsertionBB, FBlocks, stack, visitLog>>

CloneAny == \E b \in Blocks : \E i \in DOMAIN Insts[b] : CloneInst(b, i)

\* The engine of a derived class on any valid function of at most RuleEdges
\* edges; blocks the start block cannot reach may branch as well.
RuleInit ==
  /\ \E lens \in Shapes(RuleEdges) : \E tg \in Targets(lens) :
        /\ DefsDominateUses(lens, tg)
        /\ Insts = [b \in Blocks |-> InstsOf(b, SuccList(lens, tg, b))]
  /\ Constructed

RuleNext == Next \/ CloneAny

RuleSpec == RuleInit /\ [][RuleNext]_vars

\* SILInstructionCloner::clone(SILInstruction *I): visit(I), then the
\* assertion on the kind of the clone and on the result number (postProcess
\* returns result 0 of the clone).
CloneStatus(I) ==
  IF ~NDEBUG /\ visit(I).kind # I.kind THEN "aborted" ELSE "cloned"

clone(b, i) ==
  /\ status \in {"init", "cloned"}
  /\ Len(dispatchLog) < MaxClones
  /\ Dispatch(0, b, i, CloneStatus(Insts[b][i]))
  /\ UNCHANGED <<orig, config, InsertionBB, FBlocks, stack, visitLog>>

CloneNext == \E b \in Blocks : \E i \in DOMAIN Insts[b] : clone(b, i)

\* SILInstructionCloner(F): the base class hooks, no InsertBeforeBB, a builder
\* on F with no insertion point, empty maps; the function has one branch at
\* most.
CloneInit ==
  /\ \E lens \in Shapes(1) : \E tg \in Targets(lens) :
        Insts = [b \in Blocks |-> InstsOf(b, SuccList(lens, tg, b))]
  /\ BBArgs = [b \in Blocks |-> ArgsOf(b)]
  /\ Hook = "identity"
  /\ InsertBeforeBB = NullBB
  /\ NDEBUG \in BOOLEAN
  /\ ArgumentMap = EmptyMap
  /\ InstructionMap = EmptyMap
  /\ BBMap = EmptyMap
  /\ InsertionBB = NullBB
  /\ FBlocks = <<CallerBB, AnchorBB>>
  /\ NewBBs = <<NewBlock, NewBlock>>
  /\ NewInsts = <<>>
  /\ stack = <<>>
  /\ status = "init"
  /\ visitLog = <<>>
  /\ dispatchLog = <<>>

CloneSpec == CloneInit /\ [][CloneNext]_vars

-----------------------------------------------------------------------------
\* Cloning a function body whose entry block uses its parameters

EntryEdges == 3

\* The entry block of a callee: a local is allocated, the block's parameter
\* is stored into it, the local is loaded, the terminator uses the result.
EntryBody ==
  << MkInst("alloc_stack", LocOf(StartBB, 1), ArgType(StartBB, 1), 0, <<>>, <<>>),
     MkInst("store", LocOf(StartBB, 2), NoType, 0,
          <<ArgValue(StartBB, 1), InstValue(StartBB, 1, 1)>>, <<>>),
     MkInst("load", LocOf(StartBB, 3), NoType, 0, <<InstValue(StartBB, 1, 1)>>, <<>>) >>

EntryInstsOf(b, sl) ==
  IF b = StartBB THEN Append(EntryBody, TermAfter(b, Len(EntryBody), sl))
  ELSE InstsOf(b, sl)

\* The derived class supplies the values of the start block's parameters
\* (here: parameters of the block it inserts into) and enters them in
\* ArgumentMap before it calls the walker.
PreRegister ==
  /\ status = "init"
  /\ ArgumentMap = EmptyMap
  /\ ArgumentMap' = [k \in {StartBB} \X (1 .. Len(BBArgs[StartBB])) |->
                        NewArgValue(CallerBB, k[2])]
  /\ NewBBs' = [NewBBs EXCEPT ![CallerBB].args = MappedArgTypes(StartBB)]
  /\ UNCHANGED <<orig, config, InstructionMap, BBMap, InsertionBB, FBlocks,
                 NewInsts, control, history>>

\* Any function of at most EntryEdges edges with that entry block, whether or
\* not its definitions dominate their uses.
EntryInit ==
  /\ \E lens \in Shapes(EntryEdges) : \E tg \in Targets(lens) :
        /\ UnreachableReturn(lens, tg)
        /\ Insts = [b \in Blocks |-> EntryInstsOf(b, SuccList(lens, tg, b))]
  /\ Constructed

EntryNext == PreRegister \/ Next \/ CloneAny

EntrySpec == EntryInit /\ [][EntryNext]_vars

-----------------------------------------------------------------------------
\* Cloning instructions that carry payloads, and switches

KindEdges == 2

\* The non-terminator instructions of block b; every operand is a result of
\* the block's first instruction.
KindBody(b) ==
  LET ty == b % NumTypes
      first == InstValue(b, 1, 0)
  IN  CASE b % 4 = 0 ->
             << MkInst("integer_literal", LocOf(b, 1), ty, 40 + b, <<>>, <<>>),
                MkInst("apply", LocOf(b, 2), <<ty, (b + 1) % NumTypes>>,
                       [substitutions |-> b + 1, transparent |-> TRUE],
                       <<first, first>>, <<>>) >>
        [] b % 4 = 1 ->
             << MkInst("integer_literal", LocOf(b, 1), ty, 40 + b, <<>>, <<>>),
                MkInst("enum", LocOf(b, 2), ty, 5, <<first>>, <<>>),
                MkInst("copy_addr", LocOf(b, 3), NoType,
                       [isTakeOfSrc |-> TRUE, isInitializationOfDest |-> FALSE],
                       <<first, first>>, <<>>) >>
        [] b % 4 = 2 ->
             << MkInst("integer_literal", LocOf(b, 1), ty, 40 + b, <<>>, <<>>),
                MkInst("class_method", LocOf(b, 2), ty,
                       [member |-> 9, volatile |-> TRUE], <<first>>, <<>>),
                MkInst("unconditional_checked_cast", LocOf(b, 3), ty, 2,
                       <<first>>, <<>>) >>
        [] OTHER ->
             << MkInst("enum", LocOf(b, 1), ty, 5, <<>>, <<>>),
                MkInst("initialize_var", LocOf(b, 2), NoType,
                       [canDefaultConstruct |-> TRUE], <<first>>, <<>>),
                MkInst("init_existential", LocOf(b, 3), ty, 3, <<first>>, <<>>) >>

\* The terminator of block b for its successor list: a return, or a switch on
\* the block's first result whose last destination is the default one when
\* the sum of that destination and b is odd.
SwitchKindOf(b) ==
  CASE b % 3 = 0 -> "switch_int"
    [] b % 3 = 1 -> "switch_enum"
    [] OTHER -> "destructive_switch_enum_addr"
KindTerm(b, sl) ==
  LET loc == LocOf(b, Len(KindBody(b)) + 1)
      cases == IF (b + sl[Len(sl)]) % 2 = 1 THEN Len(sl) - 1 ELSE Len(sl)
  IN  IF Len(sl) = 0
      THEN MkInst("return", loc, NoType, 0, <<InstValue(b, 1, 0)>>, <<>>)
      ELSE MkInst(SwitchKindOf(b), loc, NoType,
                  [i \in 1 .. cases |-> 10 * i + b], <<InstValue(b, 1, 0)>>, sl)

KindInstsOf(b, sl) == Append(KindBody(b), KindTerm(b, sl))

\* A derived class dispatches an instruction of the start block itself before
\* it calls the walker.
EarlyVisit ==
  /\ status = "init"
  /\ dispatchLog = <<>>
  /\ \E i \in DOMAIN Insts[StartBB] : Dispatch(0, StartBB, i, "init")
  /\ UNCHANGED <<orig, config, InsertionBB, FBlocks, stack, visitLog>>

KindInit ==
  /\ \E lens \in Shapes(KindEdges) : \E tg \in Targets(lens) :
        /\ UnreachableReturn(lens, tg)
        /\ Insts = [b \in Blocks |-> KindInstsOf(b, SuccList(lens, tg, b))]
  /\ Constructed

KindNext == EarlyVisit \/ Next \/ CloneAny

KindSpec == KindInit /\ [][KindNext]_vars

-----------------------------------------------------------------------------
\* Notions the properties use

Finished == status \in {"done", "aborted", "crashed"}

\* The original blocks reachable from StartBB along successor edges.
RECURSIVE ReachableFrom(_)
ReachableFrom(seen) ==
  LET more == seen \cup UNION { Range(Succs(b)) : b \in seen }
  IN  IF more = seen THEN seen ELSE ReachableFrom(more)
Reachable == ReachableFrom({StartBB})

\* The blocks visitSILBasicBlock was invoked on, and their successors.
Visited == Range(visitLog)
Discovered == UNION { Range(Succs(b)) : b \in Visited }
\* The blocks the walk created in the target function.
CreatedBlocks == (AnchorBB + 1) .. Len(NewBBs)
\* The blocks reachable from StartBB on a path that does not enter block d;
\* block d dominates block b when every path from StartBB to b enters d.
RECURSIVE ReachableAvoiding(_, _)
ReachableAvoiding(d, seen) ==
  LET more == seen \cup (UNION { Range(Succs(b)) : b \in seen } \ {d})
  IN  IF more = seen THEN seen ELSE ReachableAvoiding(d, more)
DominatesUse(d, b) == b \notin ReachableAvoiding(d, {StartBB} \ {d})

HasCycle == \E b \in Reachable : b \in ReachableFrom(Range(Succs(b)))

\* The invocations of the walker that dispatched an instruction of block b.
DispatchingInvocations(b) ==
  { dispatchLog[k].inv : k \in { n \in DOMAIN dispatchLog : dispatchLog[n].bb = b } }

LastDispatch == dispatchLog[Len(dispatchLog)]

MappedBlocks == { b \in DOMAIN BBMap : BBMap[b] # NullBB }
Predecessors(b) == { p \in Visited : b \in Range(Succs(p)) }

-----------------------------------------------------------------------------
\* Properties of the walk (Spec, FairSpec)

\* C1: in a walk started with empty maps, the instructions of an original
\* block are dispatched in at most one invocation of visitSILBasicBlock.
C1_NoBlockProcessedTwice ==
  \A b \in Blocks : Cardinality(DispatchingInvocations(b)) <= 1

\* C2: the walk terminates, and visitSILBasicBlock is invoked at most once
\* more than there are original blocks reachable from the start block.
C2_WalkTerminates ==
  /\ [](Len(visitLog) <= Cardinality(Reachable) + 1)
  /\ <>Finished

C2_Witness ==
  /\ status = "done"
  /\ StartBB \in Range(Succs(StartBB))
  /\ Cardinality(Reachable) >= 2
  /\ Len(visitLog) = Cardinality(Reachable) + 1

\* C3: after a complete walk the blocks with a Block Map entry are exactly
\* the blocks the walk reached, the start block included.
C3_ReachedBlocksAreMapped ==
  status = "done" => DOMAIN BBMap = Visited

\* C4: the walk creates one new block per distinct original block found as
\* a successor of a visited block: BBMap is injective, its image is the set
\* of created blocks, and after the walk its domain is the set of successors
\* of visited blocks.
C4_OneNewBlockPerSuccessor ==
  /\ \A a, b \in DOMAIN BBMap : a # b => BBMap[a] # BBMap[b]
  /\ { BBMap[b] : b \in DOMAIN BBMap } = CreatedBlocks
  /\ DOMAIN BBMap \subseteq Discovered
  /\ status = "done" =>
       Cardinality(CreatedBlocks) = Cardinality(Discovered)

C4_Witness ==
  /\ status = "done"
  /\ \E j \in Blocks : Cardinality(Predecessors(j)) = 2 /\ j # StartBB
  /\ Cardinality(Visited) = 4
  /\ Cardinality(CreatedBlocks) = 3

C6_ParameterTypesRemapped ==
  \A b \in MappedBlocks : \A j \in 1 .. Len(BBArgs[b]) :
    NewBBs[BBMap[b]].args[j] = remapType(BBArgs[b][j])

-----------------------------------------------------------------------------
\* Properties of the clone rules (RuleSpec)

HasNullOperand(id) ==
  \/ \E k \in DOMAIN NewInsts[id].ops : IsNull(NewInsts[id].ops[k])
  \/ \E k \in DOMAIN NewInsts[id].succs : NewInsts[id].succs[k] = NullBB

\* C7: a dispatch that meets an operand without a map entry fails at once:
\* the process stops on the violation, no instruction is created for it, and
\* no rule is ever handed a null value in place of the missing mapping.
C7_UnmappedOperandFailsFast ==
  /\ \A k \in DOMAIN dispatchLog :
       dispatchLog[k].missedValue =>
         /\ status = "aborted"
         /\ dispatchLog[k].clone = NullInst
  /\ \A id \in DOMAIN NewInsts :
       \A k \in DOMAIN NewInsts[id].ops : ~IsNull(NewInsts[id].ops[k])

\* C8: a dispatch of a control-transfer instruction with a successor that has
\* no Block Map entry fails and creates no clone; a clone of a control
\* transfer exists only if every successor had an entry.
C8_UnmappedSuccessorFails ==
  \A k \in DOMAIN dispatchLog :
    /\ dispatchLog[k].missedBlock =>
         /\ status = "aborted"
         /\ dispatchLog[k].clone = NullInst
    /\ dispatchLog[k].clone # NullInst =>
         \A n \in DOMAIN NewInsts[dispatchLog[k].clone].succs :
           NewInsts[dispatchLog[k].clone].succs[n] # NullBB

-----------------------------------------------------------------------------
\* Properties of the standalone cloner (CloneSpec)

\* C9: the first clone() of a freshly constructed SILInstructionCloner
\* succeeds whatever the instruction, and yields an instruction of the kind
\* of the original.
C9_StandaloneCloneSucceeds ==
  Len(dispatchLog) >= 1 =>
    LET d == dispatchLog[1]
    IN  /\ d.clone # NullInst
        /\ NewInsts[d.clone].kind = Insts[d.bb][d.idx].kind
        /\ ~HasNullOperand(d.clone)

\* C10: a clone made by the standalone cloner has the operands, the
\* location and the type of its original.
C10_StandaloneCloneIsIdentity ==
  \A k \in DOMAIN dispatchLog :
    LET d == dispatchLog[k]
    IN  d.clone # NullInst =>
          /\ NewInsts[d.clone].ops = Insts[d.bb][d.idx].ops
          /\ NewInsts[d.clone].loc = Insts[d.bb][d.idx].loc
          /\ NewInsts[d.clone].ty = Insts[d.bb][d.idx].ty

-----------------------------------------------------------------------------
\* Properties of the operands and of the maps (RuleSpec)

\* The image of an original value under the maps: the entry of a block
\* parameter; the result of the same index of the entry of an instruction.
MapImage(Value) ==
  IF IsArgument(Value) THEN ArgumentMap[ArgKey(Value)]
  ELSE IF InstructionMap[InstKey(Value)] = NullInst THEN NullValue(Value[4])
  ELSE NewInstValue(InstructionMap[InstKey(Value)], Value[4])

HasMapEntry(Value) ==
  IF IsArgument(Value) THEN ArgKey(Value) \in DOMAIN ArgumentMap
  ELSE InstKey(Value) \in DOMAIN InstructionMap

\* C11: a cloned instruction has as many operands as its original, in the
\* same order, and each is the map image of the original operand: the
\* ArgumentMap entry of a block parameter, the n-th result of the
\* InstructionMap entry for the n-th result of an instruction.
C11_OperandsAreMapImages ==
  \A k \in DOMAIN dispatchLog :
    LET d == dispatchLog[k]
        I == Insts[d.bb][d.idx]
    IN  d.clone # NullInst =>
          /\ Len(NewInsts[d.clone].ops) = Len(I.ops)
          /\ \A n \in DOMAIN I.ops :
               /\ HasMapEntry(I.ops[n])
               /\ NewInsts[d.clone].ops[n] = MapImage(I.ops[n])

C11_Witness ==
  /\ status = "cloned"
  /\ \E k \in DOMAIN dispatchLog :
       /\ dispatchLog[k].clone # NullInst
       /\ NewInsts[dispatchLog[k].clone].kind = "cond_br"
       /\ Len(NewInsts[dispatchLog[k].clone].ops) = 4
       /\ ~HasNullOperand(dispatchLog[k].clone)
  /\ \E k \in DOMAIN dispatchLog :
       /\ dispatchLog[k].clone # NullInst
       /\ NewInsts[dispatchLog[k].clone].kind = "tuple"
       /\ NewInsts[dispatchLog[k].clone].ops = <<NewArgValue(3, 1), NewArgValue(3, 2)>>
  /\ \E k \in DOMAIN dispatchLog :
       /\ dispatchLog[k].clone # NullInst
       /\ NewInsts[dispatchLog[k].clone].kind = "load"
       /\ NewInsts[dispatchLog[k].clone].ops[1][4] = 1

\* C14: no step of the engine, whether of the walk, of a clone rule or of a
\* lookup, changes the original function: the parameter lists of the
\* original blocks and their instructions, with operands, payloads and
\* successors, are after the step what they were before it.
C14_OriginalUnchanged ==
  [][BBArgs' = BBArgs /\ Insts' = Insts]_vars

C14_Witness ==
  /\ status = "cloned"
  /\ Cardinality(CreatedBlocks) >= 2
  /\ Len(NewInsts) >= 4
  /\ LastDispatch.clone # NullInst
  /\ BBArgs = [b \in Blocks |-> ArgsOf(b)]
  /\ \A b \in Blocks : Insts[b] = InstsOf(b, Succs(b))

\* C15: a step never removes a map entry that names a clone, nor changes
\* the clone it names, in ArgumentMap, InstructionMap and BBMap alike.
C15_MapsGrowMonotonically ==
  [][/\ \A k \in DOMAIN ArgumentMap :
          ~IsNull(ArgumentMap[k]) =>
            k \in DOMAIN ArgumentMap' /\ ArgumentMap'[k] = ArgumentMap[k]
     /\ \A k \in DOMAIN InstructionMap :
          InstructionMap[k] # NullInst =>
            k \in DOMAIN InstructionMap' /\ InstructionMap'[k] = InstructionMap[k]
     /\ \A k \in DOMAIN BBMap :
          BBMap[k] # NullBB =>
            k \in DOMAIN BBMap' /\ BBMap'[k] = BBMap[k]]_vars

\* An instruction has been cloned twice, a block discovered while its
\* parameters and the clones of its instructions were already known.
C15_Witness ==
  /\ \E m, n \in DOMAIN dispatchLog :
       /\ m < n
       /\ dispatchLog[m].bb = dispatchLog[n].bb
       /\ dispatchLog[m].idx = dispatchLog[n].idx
       /\ dispatchLog[m].clone # NullInst
       /\ dispatchLog[n].clone # NullInst
       /\ InstructionMap[<<dispatchLog[m].bb, dispatchLog[m].idx>>] = dispatchLog[m].clone
  /\ Cardinality(MappedBlocks) >= 2
  /\ Cardinality(DOMAIN ArgumentMap) >= 2

\* C17: after a complete walk every successor of a visited block has a
\* Block Map entry naming a new block, the start block included when an edge
\* leads back to it; the derived class that then dispatches the terminator of
\* a visited block meets no unmapped block.
C17_SuccessorsMappedAfterWalk ==
  /\ status = "done" =>
       \A b \in Visited : \A n \in DOMAIN Succs(b) :
         /\ Succs(b)[n] \in DOMAIN BBMap
         /\ BBMap[Succs(b)[n]] \in CreatedBlocks
  /\ (/\ status \in {"cloned", "aborted", "crashed"}
      /\ visitLog # <<>>
      /\ LastDispatch.inv = 0
      /\ LastDispatch.bb \in Visited
      /\ LastDispatch.idx = Len(Insts[LastDispatch.bb])) =>
       /\ ~LastDispatch.missedBlock
       /\ LastDispatch.clone # NullInst
       /\ NewInsts[LastDispatch.clone].succs =
            [n \in DOMAIN Succs(LastDispatch.bb) |-> BBMap[Succs(LastDispatch.bb)[n]]]

C17_Witness ==
  /\ status = "cloned"
  /\ visitLog # <<>>
  /\ LastDispatch.bb \in Visited \ {StartBB}
  /\ LastDispatch.clone # NullInst
  /\ NewInsts[LastDispatch.clone].kind = "br"
  /\ Succs(LastDispatch.bb) = <<StartBB>>
  /\ NewInsts[LastDispatch.clone].succs = <<BBMap[StartBB]>>

-----------------------------------------------------------------------------
\* Properties of the walker's clones (Spec)

\* The invocations of the walker whose loop over the instructions has ended.
FramesOnStack == { stack[n].inv : n \in DOMAIN stack }
FrameOf(inv) == stack[CHOOSE n \in DOMAIN stack : stack[n].inv = inv]
ClonedInvocations ==
  { inv \in DOMAIN visitLog :
      inv \in FramesOnStack => FrameOf(inv).ip = Len(Insts[visitLog[inv]]) }

\* The instructions invocation inv of the walker has dispatched, in order.
DispatchedBy(inv) ==
  LET ds == SelectSeq(dispatchLog, LAMBDA d : d.inv = inv)
  IN  [n \in DOMAIN ds |-> ds[n].idx]

\* C18: an invocation of the walker on a block of k instructions dispatches
\* instructions 1 .. k-1 of that block in this order, all of them before it
\* examines a successor, and never the k-th: the walk creates no clone of a
\* terminator and no InstructionMap entry for one.
C18_TerminatorNotDispatched ==
  /\ \A k \in DOMAIN dispatchLog :
       /\ dispatchLog[k].bb = visitLog[dispatchLog[k].inv]
       /\ dispatchLog[k].idx < Len(Insts[dispatchLog[k].bb])
  /\ \A inv \in DOMAIN visitLog :
       DispatchedBy(inv) =
         [n \in 1 .. (IF inv \in FramesOnStack THEN FrameOf(inv).ip - 1
                      ELSE Len(Insts[visitLog[inv]]) - 1) |-> n]
  /\ \A n \in DOMAIN stack :
       (stack[n].sp > 1 \/ n < Len(stack)) =>
         Len(DispatchedBy(stack[n].inv)) = Len(Insts[stack[n].bb]) - 1
  /\ \A b \in Blocks : <<b, Len(Insts[b])>> \notin DOMAIN InstructionMap
  /\ \A id \in DOMAIN NewInsts : NewInsts[id].kind \notin {"return", "br", "cond_br"}

C18_Witness ==
  /\ status = "done"
  /\ \E inv \in DOMAIN visitLog :
       /\ DispatchedBy(inv) = <<1, 2>>
       /\ Terminator(visitLog[inv]).kind = "cond_br"
  /\ \E inv \in DOMAIN visitLog :
       /\ DispatchedBy(inv) = <<1>>
       /\ Terminator(visitLog[inv]).kind = "return"
  /\ Len(NewInsts) >= 5

\* The depth-first preorder of the original graph from StartBB, the
\* successors of a block taken in the order of its terminator's edges.
RECURSIVE PreorderVisit(_, _)
RECURSIVE PreorderSuccs(_, _)
PreorderSuccs(ss, acc) ==
  IF ss = <<>> THEN acc
  ELSE PreorderSuccs(Tail(ss),
                     IF Head(ss) \in Range(acc) THEN acc
                     ELSE PreorderVisit(Head(ss), Append(acc, Head(ss))))
PreorderVisit(b, acc) == PreorderSuccs(Succs(b), acc)
Preorder == PreorderVisit(StartBB, <<StartBB>>)

\* The new blocks in the order of their creation.
CreatedInOrder == [n \in 1 .. Cardinality(CreatedBlocks) |-> AnchorBB + n]

\* C19: the new blocks are created in depth-first preorder of the original
\* graph, successors in edge order; in the target function they stand in
\* the order of their creation, just before InsertBeforeBB when it is set
\* and at the end of the function when it is not.
C19_BlocksInPreorder ==
  /\ status = "done" =>
       /\ Tail(visitLog) = Tail(Preorder)
       /\ \A n \in DOMAIN CreatedInOrder :
            BBMap[visitLog[n + 1]] = CreatedInOrder[n]
  /\ FBlocks = IF InsertBeforeBB # NullBB
               THEN <<CallerBB>> \o CreatedInOrder \o <<AnchorBB>>
               ELSE <<CallerBB, AnchorBB>> \o CreatedInOrder

\* The position in its block of the original of new instruction id.
OriginalIndex(id) ==
  dispatchLog[CHOOSE k \in DOMAIN dispatchLog : dispatchLog[k].clone = id].idx

\* C20: the clones of the non-terminator instructions of a block the walker
\* discovered as a successor lie in the new block BBMap names for it and in
\* no other block, in the order of the original instructions, although the
\* insertion point moves on during the recursion and is not restored.
C20_ClonesInMappedBlock ==
  /\ \A k \in DOMAIN dispatchLog :
       LET d == dispatchLog[k]
       IN  (d.bb \in MappedBlocks /\ d.clone # NullInst) =>
             /\ NewInsts[d.clone].parent = BBMap[d.bb]
             /\ \A nb \in DOMAIN NewBBs :
                  d.clone \in Range(NewBBs[nb].insts) <=> nb = BBMap[d.bb]
  /\ \A b \in MappedBlocks :
       LET new == NewBBs[BBMap[b]].insts
       IN  /\ [n \in DOMAIN new |-> OriginalIndex(new[n])] = [n \in DOMAIN new |-> n]
           /\ status = "done" => Len(new) = Len(Insts[b]) - 1

\* C12: once an invocation of the walker has cloned its block, every
\* instruction of the block but the terminator has an InstructionMap entry,
\* and the entry of an instruction is the clone the rule made for it and
\* handed to postProcess.
C12_ClonedInstructionsRecorded ==
  /\ \A inv \in ClonedInvocations :
       \A i \in 1 .. (Len(Insts[visitLog[inv]]) - 1) :
         <<visitLog[inv], i>> \in DOMAIN InstructionMap
  /\ \A k \in DOMAIN dispatchLog :
       LET d == dispatchLog[k]
       IN  d.clone # NullInst =>
             /\ <<d.bb, d.idx>> \in DOMAIN InstructionMap
             /\ InstructionMap[<<d.bb, d.idx>>] = d.clone

-----------------------------------------------------------------------------
\* Properties of a walk with registered start parameters (EntrySpec)

\* The caller has entered every parameter of the start block in ArgumentMap.
EntryArgsRegistered ==
  \A j \in 1 .. Len(BBArgs[StartBB]) :
    /\ <<StartBB, j>> \in DOMAIN ArgumentMap
    /\ ArgumentMap[<<StartBB, j>>] = NewArgValue(CallerBB, j)

\* B0 = [alloc-local x; store v into x; load x into y; return y], no successor.
LinearChain ==
  /\ EntryArgsRegistered
  /\ Succs(StartBB) = <<>>
  /\ [i \in DOMAIN Insts[StartBB] |-> Insts[StartBB][i].kind]
       = <<"alloc_stack", "store", "load", "return">>

\* C13 as stated: the walk from the linear chain B0 yields exactly one new
\* block holding four new instructions in the original order, the clone of
\* the load referencing the clone of the alloc, and four map entries.
C13_LinearChainFourClones ==
  (LinearChain /\ status = "done") =>
    /\ Cardinality(CreatedBlocks) = 1
    /\ Len(NewInsts) = 4
    /\ \E nb \in CreatedBlocks : NewBBs[nb].insts = <<1, 2, 3, 4>>
    /\ [i \in DOMAIN NewInsts |-> NewInsts[i].kind]
         = <<"alloc_stack", "store", "load", "return">>
    /\ NewInsts[3].ops = <<NewInstValue(1, 1)>>
    /\ Cardinality(DOMAIN InstructionMap) = 4

\* C13, amended: the walk from the linear chain B0 creates no block; it
\* appends three new instructions, the clones of the alloc, the store and
\* the load in that order, to the block of the insertion point, the clones
\* of the store and of the load referencing the clone of the alloc, and the
\* map holds three entries.  The return is left to the derived class: once
\* it has dispatched the return, the block holds the four clones in the
\* original order and the map four entries.
C13_LinearChainThreeClones ==
  /\ (LinearChain /\ status = "done") =>
       /\ CreatedBlocks = {}
       /\ Len(NewInsts) = 3
       /\ NewBBs[CallerBB].insts = <<1, 2, 3>>
       /\ [i \in DOMAIN NewInsts |-> NewInsts[i].kind]
            = <<"alloc_stack", "store", "load">>
       /\ NewInsts[2].ops = <<NewArgValue(CallerBB, 1), NewInstValue(1, 1)>>
       /\ NewInsts[3].ops = <<NewInstValue(1, 1)>>
       /\ InstructionMap = [k \in {StartBB} \X (1 .. 3) |-> k[2]]
  /\ (/\ LinearChain
      /\ status = "cloned"
      /\ visitLog # <<>>
      /\ LastDispatch.idx = Len(Insts[StartBB])
      /\ LastDispatch.bb = StartBB) =>
       /\ CreatedBlocks = {}
       /\ NewBBs[CallerBB].insts = <<1, 2, 3, 4>>
       /\ [i \in DOMAIN NewInsts |-> NewInsts[i].kind]
            = <<"alloc_stack", "store", "load", "return">>
       /\ NewInsts[4].ops = <<NewInstValue(3, 0)>>
       /\ InstructionMap = [k \in {StartBB} \X (1 .. 4) |-> k[2]]

C13_Witness ==
  /\ LinearChain
  /\ status = "cloned"
  /\ visitLog = <<StartBB>>
  /\ LastDispatch.bb = StartBB
  /\ LastDispatch.idx = 4
  /\ Len(NewInsts) = 4

\* Every operand of a reachable non-terminator instruction is a parameter of
\* the block of the use or of a block that dominates it, or a result of a
\* non-terminator instruction that precedes the use in its block or lies in
\* a block that dominates it.
OperandsDominated ==
  \A b \in Reachable : \A i \in 1 .. (Len(Insts[b]) - 1) :
    \A n \in DOMAIN Insts[b][i].ops :
      LET v == Insts[b][i].ops[n]
      IN  IF IsArgument(v) THEN DominatesUse(v[2], b)
          ELSE /\ v[3] < Len(Insts[v[2]])
               /\ IF v[2] = b THEN v[3] < i ELSE DominatesUse(v[2], b)

-----------------------------------------------------------------------------
\* Payloads, optional operands and switches (KindSpec)

\* The dispatches that produced a clone, and what they cloned.
Completed == { n \in DOMAIN dispatchLog : dispatchLog[n].clone # NullInst }
OriginalOf(n) == Insts[dispatchLog[n].bb][dispatchLog[n].idx]
CloneOf(n) == NewInsts[dispatchLog[n].clone]

\* C21: every dispatch that completes creates exactly one new instruction,
\* whose kind is the kind of the original and whose payload (literal value,
\* enum element, member, cast kind, substitutions, conformances, flags) equals
\* the payload of the original.
C21_ClonesKeepKindAndPayload ==
  /\ Len(NewInsts) = Cardinality(Completed)
  /\ \A m, n \in Completed : m # n => dispatchLog[m].clone # dispatchLog[n].clone
  /\ \A n \in Completed :
        /\ CloneOf(n).kind = OriginalOf(n).kind
        /\ CloneOf(n).payload = OriginalOf(n).payload

\* A walk has cloned an apply, a copy_addr and a class_method, and a switch
\* was cloned afterwards.
C21_Witness ==
  /\ status = "cloned"
  /\ \A k \in {"apply", "copy_addr", "class_method"} :
        \E n \in Completed : CloneOf(n).kind = k
  /\ \E n \in Completed : CloneOf(n).kind \in SwitchKinds
  /\ \E n \in Completed :
        /\ CloneOf(n).kind = "copy_addr"
        /\ CloneOf(n).payload.isTakeOfSrc
        /\ ~CloneOf(n).payload.isInitializationOfDest

\* The default destination of a switch, null when it has none.
DefaultOf(I) == IF hasDefault(I) THEN getDefaultBB(I) ELSE NullBB

\* The blocks the dispatches so far had to look up.
LookedUpBlocks == UNION { Range(OriginalOf(n).succs) : n \in DOMAIN dispatchLog }

\* C22: the clone of a switch has the cases of the original in the same
\* order, each with its value and with the BBMap image of its destination;
\* its default destination is the BBMap image of the original's default, and
\* it has none when the original has none; BBMap is asked for no block that
\* is not a destination of the switch.
C22_SwitchKeepsCasesAndDefault ==
  /\ \A n \in Completed :
        OriginalOf(n).kind \in SwitchKinds =>
          /\ getNumCases(CloneOf(n)) = getNumCases(OriginalOf(n))
          /\ \A i \in 1 .. getNumCases(OriginalOf(n)) :
                /\ getCase(CloneOf(n), i)[1] = getCase(OriginalOf(n), i)[1]
                /\ getCase(OriginalOf(n), i)[2] \in DOMAIN BBMap
                /\ getCase(CloneOf(n), i)[2] = BBMap[getCase(OriginalOf(n), i)[2]]
          /\ IF hasDefault(OriginalOf(n))
             THEN /\ getDefaultBB(OriginalOf(n)) \in DOMAIN BBMap
                  /\ DefaultOf(CloneOf(n)) = BBMap[getDefaultBB(OriginalOf(n))]
             ELSE ~hasDefault(CloneOf(n))
  /\ visitLog = <<>> => DOMAIN BBMap \subseteq LookedUpBlocks

\* After a walk a switch with two cases and no default was cloned: both its
\* destinations have images.
C22_Witness ==
  \E n \in Completed :
    /\ OriginalOf(n).kind \in SwitchKinds
    /\ getNumCases(OriginalOf(n)) = 2
    /\ ~hasDefault(OriginalOf(n))
    /\ OriginalOf(n).succs[1] # OriginalOf(n).succs[2]
    /\ \A i \in 1 .. 2 : CloneOf(n).succs[i] # NullBB

\* The dispatches of an enum instruction.
EnumDispatches == { n \in DOMAIN dispatchLog : OriginalOf(n).kind = "enum" }

\* C23: an enum instruction without operand is always cloned, into a clone
\* without operand, and its dispatch looks no value up: when it is the only
\* dispatch so far, ArgumentMap and BBMap are empty and InstructionMap holds
\* the clone alone.  The clone of an enum instruction with an operand has the
\* map image of that operand as its operand.
C23_EnumOperandOptional ==
  \A n \in EnumDispatches :
    IF hasOperand(OriginalOf(n))
    THEN n \in Completed =>
           /\ Len(CloneOf(n).ops) = 1
           /\ HasMapEntry(OriginalOf(n).ops[1])
           /\ CloneOf(n).ops[1] = MapImage(OriginalOf(n).ops[1])
    ELSE /\ n \in Completed
         /\ CloneOf(n).ops = <<>>
         /\ ~dispatchLog[n].missedValue
         /\ (Len(dispatchLog) = 1 /\ visitLog = <<>>) =>
               /\ ArgumentMap = EmptyMap
               /\ BBMap = EmptyMap
               /\ DOMAIN InstructionMap = {<<dispatchLog[n].bb, dispatchLog[n].idx>>}
               /\ InstructionMap[<<dispatchLog[n].bb, dispatchLog[n].idx>>]
                    = dispatchLog[n].clone

\* An enum instruction without operand was cloned on empty maps, before any
\* walk.
C23_Witness ==
  /\ Len(dispatchLog) = 1
  /\ visitLog = <<>>
  /\ 1 \in EnumDispatches
  /\ ~hasOperand(OriginalOf(1))
  /\ 1 \in Completed
  /\ CloneOf(1).ops = <<>>

\* C24: remapValue and remapBasicBlock add no entry to a map.  The entries
\* the walker and postProcess add are never null and a lookup could only add
\* a null one, so: no map holds a null entry, and every block BBMap.find
\* finds is a block the walker was invoked on.
C24_LookupsReadOnly ==
  /\ \A k \in DOMAIN ArgumentMap : ~IsNull(ArgumentMap[k])
  /\ \A k \in DOMAIN InstructionMap : InstructionMap[k] # NullInst
  /\ \A k \in DOMAIN BBMap : BBMap[k] # NullBB
  /\ DOMAIN BBMap \subseteq Visited

\* The completed dispatches of the original instruction key, and the first
\* clone made of it.
ClonesOf(key) ==
  { n \in Completed : <<dispatchLog[n].bb, dispatchLog[n].idx>> = key }
FirstCloneOf(key) ==
  dispatchLog[CHOOSE n \in ClonesOf(key) : \A m \in ClonesOf(key) : n <= m].clone

\* C25: however often an instruction is cloned, an InstructionMap entry that
\* names a clone of it names the first one, and an operand looked up after
\* that first clone was recorded is a result of the first clone.
C25_FirstCloneKept ==
  /\ \A key \in DOMAIN InstructionMap :
        (ClonesOf(key) # {} /\ InstructionMap[key] # NullInst) =>
          InstructionMap[key] = FirstCloneOf(key)
  /\ \A n \in Completed : \A k \in DOMAIN OriginalOf(n).ops :
        LET Value == OriginalOf(n).ops[k]
        IN  (/\ IsInstruction(Value)
             /\ \E m \in ClonesOf(InstKey(Value)) : m < n
             /\ InstructionMap[InstKey(Value)] # NullInst) =>
              CloneOf(n).ops[k] = NewInstValue(FirstCloneOf(InstKey(Value)), Value[4])

\* An instruction was cloned by the derived class and again by the walker,
\* and an instruction cloned after that uses it.
C25_Witness ==
  \E m, n, p \in Completed :
    /\ m < n /\ n < p
    /\ m \in ClonesOf(<<dispatchLog[n].bb, dispatchLog[n].idx>>)
    /\ dispatchLog[m].inv = 0
    /\ dispatchLog[n].inv # 0
    /\ InstructionMap[<<dispatchLog[n].bb, dispatchLog[n].idx>>] = dispatchLog[m].clone
    /\ \E k \in DOMAIN OriginalOf(p).ops :
          /\ IsInstruction(OriginalOf(p).ops[k])
          /\ InstKey(OriginalOf(p).ops[k]) = <<dispatchLog[n].bb, dispatchLog[n].idx>>
          /\ CloneOf(p).ops[k] = NewInstValue(dispatchLog[m].clone, 0)

-----------------------------------------------------------------------------
\* The insertion point after a walk (Spec)

\* C26: when the walk has returned, the builder's insertion point is the new
\* block created last, the image of the block discovered last, if the walk
\* created a block, and the block the derived class had set (the one the
\* start block's instructions went to) if it created none.
C26_InsertionPointNotRestored ==
  status = "done" =>
    IF CreatedBlocks # {}
    THEN /\ InsertionBB = Len(NewBBs)
         /\ InsertionBB = BBMap[visitLog[Len(visitLog)]]
         /\ InsertionBB # CallerBB
    ELSE InsertionBB = CallerBB

\* A walk that created three blocks has returned, and the block created last
\* is not the last successor of the start block.
C26_Witness ==
  /\ status = "done"
  /\ Cardinality(CreatedBlocks) >= 3
  /\ InsertionBB = Len(NewBBs)
  /\ visitLog[Len(visitLog)] \notin Range(Succs(StartBB))

====
